---------------------------- MODULE Spec2Model ----------------------------
(***************************************************************************)
(* nfsusage (src/main.go): one invocation discovers the NFS mounts in      *)
(* /proc/mounts, samples each with df, appends the sample to a JSON        *)
(* history file and prints either the sample or a comparison with the      *)
(* oldest sample of the history.                                           *)
(*                                                                         *)
(* Text is a sequence of one-character strings, so that splitting into     *)
(* fields, the substring test and the integer parse are computed as the    *)
(* code computes them.  Byte counts are carried in units of 2^20 bytes:    *)
(* GiB is 1024 units and TiB 1024 * GiB, which keeps both formatting       *)
(* branches within the 32-bit integers of TLC.                              *)
(***************************************************************************)
EXTENDS Integers, Sequences, FiniteSets, TLC

VARIABLES
    file,         \* the history file on disk
    now,          \* the wall clock, in seconds
    saved,        \* saveEntries calls that returned nil so far
    overlapped,   \* some invocation started while another was running
    file0,        \* the history file before the first invocation
    pc,           \* per process: position in main
    compare,      \* per process: the -compare flag
    table,        \* per process: the lines of /proc/mounts as opened
    nfsMounts,    \* per process: result of getNFSMounts
    idx,          \* per process: mounts of nfsMounts already sampled
    results,      \* per process: err == nil of each getDFBytes call so far
    currentEntry, \* per process: the UsageEntry under construction
    entries,      \* per process: the in-memory history
    exitCode,     \* per process: exit status (-1 while running)
    stdout,       \* per process: the report printed
    stderr        \* per process: the messages printed to standard error

vars == <<file, now, saved, overlapped, file0, pc, compare, table,
          nfsMounts, idx, results, currentEntry, entries, exitCode, stdout,
          stderr>>

(***************************************************************************)
(* Bounds of the model.                                                    *)
(***************************************************************************)
MaxLines == 2
MaxHist == 1
MaxTime == 1

Procs == {1, 2}

(***************************************************************************)
(* Text helpers: strings.Contains, strings.Fields, strings.Split,          *)
(* strings.Join, strconv.ParseInt.                                         *)
(***************************************************************************)
IsSpace(c) == c \in {" ", "\t", "\n"}

Contains(s, sub) ==
    \E i \in 1..(Len(s) - Len(sub) + 1) : SubSeq(s, i, i + Len(sub) - 1) = sub

RECURSIVE FieldsFrom(_, _, _)
\* cur is the field being read, acc the fields already complete
FieldsFrom(s, cur, acc) ==
    IF s = <<>> THEN (IF cur = <<>> THEN acc ELSE Append(acc, cur))
    ELSE IF IsSpace(Head(s))
         THEN FieldsFrom(Tail(s), <<>>, IF cur = <<>> THEN acc ELSE Append(acc, cur))
         ELSE FieldsFrom(Tail(s), Append(cur, Head(s)), acc)

Fields(s) == FieldsFrom(s, <<>>, <<>>)

RECURSIVE SplitFrom(_, _, _, _)
SplitFrom(s, sep, cur, acc) ==
    IF s = <<>> THEN Append(acc, cur)
    ELSE IF Head(s) = sep
         THEN SplitFrom(Tail(s), sep, <<>>, Append(acc, cur))
         ELSE SplitFrom(Tail(s), sep, Append(cur, Head(s)), acc)

Split(s, sep) == SplitFrom(s, sep, <<>>, <<>>)

RECURSIVE Join(_, _)
Join(parts, sep) ==
    IF parts = <<>> THEN <<>>
    ELSE IF Len(parts) = 1 THEN parts[1]
    ELSE parts[1] \o <<sep>> \o Join(Tail(parts), sep)

Digits == {"0", "1", "2", "3", "4", "5", "6", "7", "8", "9"}

DigitVal(c) ==
    CASE c = "0" -> 0 [] c = "1" -> 1 [] c = "2" -> 2 [] c = "3" -> 3
      [] c = "4" -> 4 [] c = "5" -> 5 [] c = "6" -> 6 [] c = "7" -> 7
      [] c = "8" -> 8 [] c = "9" -> 9

RECURSIVE DigitsVal(_, _)
DigitsVal(s, acc) ==
    IF s = <<>> THEN acc ELSE DigitsVal(Tail(s), acc * 10 + DigitVal(Head(s)))

\* strconv.ParseInt(s, 10, 64): an optional sign, then one or more digits
ParseInt(s) ==
    LET signed == s # <<>> /\ Head(s) \in {"+", "-"}
        body == IF signed THEN Tail(s) ELSE s
    IN  IF body = <<>> \/ \E i \in 1..Len(body) : body[i] \notin Digits
        THEN [val |-> 0, ok |-> FALSE]
        ELSE [val |-> IF signed /\ Head(s) = "-" THEN 0 - DigitsVal(body, 0)
                      ELSE DigitsVal(body, 0),
              ok |-> TRUE]

(***************************************************************************)
(* UsageEntry and the functions on it.                                     *)
(***************************************************************************)
SnapshotMarker == <<".", "s", "n", "a", "p", "s", "h", "o", "t">>

UsageEntry(ts, mounts, total) ==
    [Timestamp |-> ts, Mounts |-> mounts, Total |-> total]

EmptyMap == [m \in {} |-> 0]

isSnapshotMount(mountPoint) == Contains(mountPoint, SnapshotMarker)

RECURSIVE SumOver(_, _)
\* the sum of f over the keys in S
SumOver(f, S) ==
    IF S = {} THEN 0
    ELSE LET k == CHOOSE k \in S : TRUE IN f[k] + SumOver(f, S \ {k})

\* faulty variant: the total is carried over, not recalculated
filterEntry_StaleTotal(entry) ==
    LET kept == {m \in DOMAIN entry.Mounts : ~isSnapshotMount(m)}
    IN  UsageEntry(entry.Timestamp, [m \in kept |-> entry.Mounts[m]], entry.Total)

filterEntry(entry) ==
    LET kept == {m \in DOMAIN entry.Mounts : ~isSnapshotMount(m)}
    IN  UsageEntry(entry.Timestamp,
                   [m \in kept |-> entry.Mounts[m]],
                   SumOver(entry.Mounts, kept))

(***************************************************************************)
(* Mount discovery.                                                        *)
(***************************************************************************)
FsNfs == <<"n", "f", "s">>
FsNfs4 == <<"n", "f", "s", "4">>

RECURSIVE getNFSMounts_KeepsSnapshots(_)
\* faulty variant: the .snapshot test is missing
getNFSMounts_KeepsSnapshots(lines) ==
    IF lines = <<>> THEN <<>>
    ELSE LET fields == Fields(Head(lines))
             rest == getNFSMounts_KeepsSnapshots(Tail(lines))
         IN  IF Len(fields) >= 3 /\ (fields[3] = FsNfs \/ fields[3] = FsNfs4)
             THEN <<fields[2]>> \o rest
             ELSE rest

RECURSIVE getNFSMounts(_)
\* the scanner loop over the lines of /proc/mounts
getNFSMounts(lines) ==
    IF lines = <<>> THEN <<>>
    ELSE LET fields == Fields(Head(lines))
             rest == getNFSMounts(Tail(lines))
         IN  IF Len(fields) >= 3
                /\ (fields[3] = FsNfs \/ fields[3] = FsNfs4)
                /\ ~isSnapshotMount(fields[2])
             THEN <<fields[2]>> \o rest
             ELSE rest

(***************************************************************************)
(* Usage sampling.  A df run is [failed, text]: the command could not be   *)
(* run or exited non-zero, or it wrote text to standard output.            *)
(***************************************************************************)
DfReturn(bytes, err) == [bytes |-> bytes, err |-> err]

getDFBytes(run) ==
    IF run.failed THEN DfReturn(0, "exec")
    ELSE LET lines == Split(run.text, "\n")
         IN  IF Len(lines) < 2 THEN DfReturn(0, "unexpected df output")
             ELSE LET fields == Fields(Join(Tail(lines), " "))
                  IN  IF Len(fields) < 3
                      THEN DfReturn(0, "unexpected df output format")
                      ELSE LET used == ParseInt(fields[3])
                           IN  IF ~used.ok
                               THEN DfReturn(0, "error parsing used bytes")
                               ELSE DfReturn(used.val, "nil")

\* faulty variant: the empty result is not tested
NoMounts_Never(mounts) == FALSE

\* line 71
NoMounts(mounts) == Len(mounts) = 0

\* faulty variant: the continue is missing, a failed mount is recorded
SampleInto_RecordsFailure(entry, mount, ret) ==
    UsageEntry(entry.Timestamp,
               [m \in DOMAIN entry.Mounts \cup {mount} |->
                   IF m = mount THEN ret.bytes ELSE entry.Mounts[m]],
               entry.Total + ret.bytes)

\* one iteration of the loop of main over nfsMounts
SampleInto(entry, mount, ret) ==
    IF ret.err # "nil" THEN entry
    ELSE UsageEntry(entry.Timestamp,
                    [m \in DOMAIN entry.Mounts \cup {mount} |->
                        IF m = mount THEN ret.bytes ELSE entry.Mounts[m]],
                    entry.Total + ret.bytes)

(***************************************************************************)
(* History store.  A file is [kind, items]: absent, unreadable, or text    *)
(* that is not JSON ("invalid"), the JSON value null, another JSON value   *)
(* that is not an array ("object"), or an array of sample objects.         *)
(***************************************************************************)
FileOf(kind, items) == [kind |-> kind, items |-> items]

\* the JSON object of a UsageEntry, by its field tags
Encode(entry) ==
    [timestamp |-> entry.Timestamp, mounts |-> entry.Mounts, total |-> entry.Total]

Decode(obj) == UsageEntry(obj.timestamp, obj.mounts, obj.total)

LoadReturn(es, err) == [entries |-> es, err |-> err]

loadEntries(f) ==
    CASE f.kind = "absent" -> LoadReturn(<<>>, "not exist")
      [] f.kind = "unreadable" -> LoadReturn(<<>>, "read")
      [] f.kind = "invalid" -> LoadReturn(<<>>, "syntax")
      [] f.kind = "object" -> LoadReturn(<<>>, "type")
      [] f.kind = "null" -> LoadReturn(<<>>, "nil")
      [] f.kind = "array" ->
            LoadReturn([i \in 1..Len(f.items) |-> Decode(f.items[i])], "nil")

\* os.IsNotExist(err)
IsNotExist(err) == err = "not exist"

\* faulty variant: a missing file is fatal too
LoadFatal_AnyError(err) == err # "nil"

\* line 95: which load errors end the run
LoadFatal(err) == err # "nil" /\ ~IsNotExist(err)

\* faulty variant: the loaded history is dropped
AppendEntry_DropsHistory(es, entry) == <<entry>>

\* line 101
AppendEntry(es, entry) == Append(es, entry)

\* a file holding the JSON array of the samples es
ArrayFile(es) == FileOf("array", [i \in 1..Len(es) |-> Encode(es[i])])

\* faulty variant: only the new sample is written
saveEntries_OnlyLast(es) == ArrayFile(<<es[Len(es)]>>)

\* the bytes saveEntries writes
saveEntries(es) == ArrayFile(es)

\* the samples a file holds, an absent file counting as the empty sequence
Samples(f) == loadEntries(f).entries

(***************************************************************************)
(* Reporter.  A formatted size is <<hundredths, unit>>: "1.50 GiB" is      *)
(* <<150, "GiB">>; a difference carries its sign first.                    *)
(***************************************************************************)
GiB == 1024
TiB == 1024 * GiB

\* n / d rounded to the nearest integer, ties to even, as %.2f rounds
RoundDiv(n, d) ==
    LET q == n \div d
        r == n % d
    IN  IF 2 * r > d \/ (2 * r = d /\ q % 2 = 1) THEN q + 1 ELSE q

formatBytes(bytes) ==
    IF bytes >= TiB THEN <<RoundDiv(bytes * 100, TiB), "TiB">>
    ELSE IF bytes >= 0 THEN <<RoundDiv(bytes * 100, GiB), "GiB">>
    ELSE <<0 - RoundDiv((0 - bytes) * 100, GiB), "GiB">>

formatDiff(diff) ==
    IF diff >= 0 THEN <<"+">> \o formatBytes(diff)
    ELSE <<"-">> \o formatBytes(0 - diff)

Removed == <<"(removed)">>
TotalLabel == <<"t", "o", "t", "a", "l">>

Row(mount, oldest, current, diff) ==
    [mount |-> mount, oldest |-> oldest, current |-> current, diff |-> diff]

\* the sequences that enumerate S once each: the orders a range over a map may take
Orders(S) ==
    {o \in [1..Cardinality(S) -> S] : \A i, j \in 1..Cardinality(S) : o[i] = o[j] => i = j}

\* oldest.Mounts[mount], the zero value when the key is absent
OldBytes(oldest, mount) ==
    IF mount \in DOMAIN oldest.Mounts THEN oldest.Mounts[mount] ELSE 0

CurrentRow(oldest, current, mount) ==
    Row(mount, formatBytes(OldBytes(oldest, mount)),
        formatBytes(current.Mounts[mount]),
        formatDiff(current.Mounts[mount] - OldBytes(oldest, mount)))

\* faulty variant: the difference of a removed mount is not negated
RemovedRow_PositiveDiff(oldest, mount) ==
    Row(mount, formatBytes(oldest.Mounts[mount]), Removed,
        formatDiff(oldest.Mounts[mount]))

RemovedRow(oldest, mount) ==
    Row(mount, formatBytes(oldest.Mounts[mount]), Removed,
        formatDiff(0 - oldest.Mounts[mount]))

TotalRow(oldest, current) ==
    Row(TotalLabel, formatBytes(oldest.Total), formatBytes(current.Total),
        formatDiff(current.Total - oldest.Total))

\* the rows of printComparison when the two map ranges take the orders given
printComparison(oldest, current, curOrder, oldOrder) ==
    LET gone == SelectSeq(oldOrder, LAMBDA m : m \notin DOMAIN current.Mounts)
    IN  [i \in 1..Len(curOrder) |-> CurrentRow(oldest, current, curOrder[i])]
        \o [i \in 1..Len(gone) |-> RemovedRow(oldest, gone[i])]
        \o <<TotalRow(oldest, current)>>

\* the lines of printCurrent when the map range takes the order given
printCurrent(entry, order) ==
    [i \in 1..Len(order) |->
        [mount |-> order[i], value |-> formatBytes(entry.Mounts[order[i]])]]
    \o <<[mount |-> TotalLabel, value |-> formatBytes(entry.Total)]>>

\* faulty variant: the comparison needs one sample only
UseComparison_OffByOne(cmp, es) == cmp /\ Len(es) > 0

\* line 110
UseComparison(cmp, es) == cmp /\ Len(es) > 1

(***************************************************************************)
(* The inputs the model draws from.                                        *)
(***************************************************************************)
PathA == <<"/", "a">>
PathB == <<"/", "b">>
PathC == <<"/", "c">>
PathSnap == <<"/", "a", "/", ".", "s", "n", "a", "p", "s", "h", "o", "t">>

\* "s:/x /a nfs rw"
LineA ==
    <<"s", ":", "/", "x", " ", "/", "a", " ", "n", "f", "s", " ", "r", "w">>
\* "s:/x<TAB>/b  nfs4 rw"
LineB ==
    <<"s", ":", "/", "x", "\t", "/", "b", " ", " ", "n", "f", "s", "4", " ", "r", "w">>
\* "s:/x /a/.snapshot nfs4 rw"
LineSnap ==
    <<"s", ":", "/", "x", " ", "/", "a", "/", ".", "s", "n", "a", "p", "s", "h",
      "o", "t", " ", "n", "f", "s", "4", " ", "r", "w">>
\* "nfs /c nfsd rw"
LineOther ==
    <<"n", "f", "s", " ", "/", "c", " ", "n", "f", "s", "d", " ", "r", "w">>
\* "nfs4 /a"
LineShort ==
    <<"n", "f", "s", "4", " ", "/", "a">>

Lines == {LineA, LineB, LineSnap, LineOther, LineShort}

SeqsUpTo(S, n) == UNION {[1..k -> S] : k \in 0..n}

MountTables == SeqsUpTo(Lines, MaxLines)

\* "H\ns:/x 9 1024 7\n"
DfPlain ==
    <<"H", "\n", "s", ":", "/", "x", " ", "9", " ", "1", "0", "2", "4", " ", "7", "\n">>
\* "H\ns:/x\n 9 2048 7\n": the device name wrapped the line
DfWrapped ==
    <<"H", "\n", "s", ":", "/", "x", "\n", " ", "9", " ", "2", "0", "4", "8", " ",
      "7", "\n">>
\* "H\ns:/x 9\n"
DfShort ==
    <<"H", "\n", "s", ":", "/", "x", " ", "9", "\n">>
\* "H\ns:/x 9 - 7\n"
DfNotInt ==
    <<"H", "\n", "s", ":", "/", "x", " ", "9", " ", "-", " ", "7", "\n">>
\* "H"
DfNoData == <<"H">>

DfRun(failed, text) == [failed |-> failed, text |-> text]

DfRuns ==
    {DfRun(TRUE, <<>>)}
    \cup {DfRun(FALSE, t) : t \in {DfPlain, DfWrapped, DfShort, DfNotInt, DfNoData}}

\* samples as an earlier run, or an earlier version without the snapshot
\* exclusion, wrote them
OldSampleA == UsageEntry(0, (PathA :> 2048) @@ (PathC :> 1572864), 1574912)
OldSampleSnap == UsageEntry(0, (PathA :> 1024) @@ (PathSnap :> 512), 1536)

InitSamples == {OldSampleA, OldSampleSnap}

InitFiles ==
    {FileOf(k, <<>>) : k \in {"absent", "unreadable", "invalid", "null", "object"}}
    \cup {ArrayFile(es) : es \in SeqsUpTo(InitSamples, MaxHist)}

\* the inputs of the two-process specification
RaceTables == {<<>>, <<LineA>>}
RaceDfRuns == {DfRun(TRUE, <<>>), DfRun(FALSE, DfPlain)}

(***************************************************************************)
(* The state machine.                                                      *)
(***************************************************************************)
NoReport == [mode |-> "none", rows |-> <<>>]

Msg(text, mount) == [text |-> text, mount |-> mount]

Running(q) == pc[q] \notin {"idle", "done"}

Init ==
    /\ file \in InitFiles
    /\ file0 = file
    /\ now = 0
    /\ saved = 0
    /\ overlapped = FALSE
    /\ pc = [p \in Procs |-> "idle"]
    /\ compare = [p \in Procs |-> FALSE]
    /\ table = [p \in Procs |-> <<>>]
    /\ nfsMounts = [p \in Procs |-> <<>>]
    /\ idx = [p \in Procs |-> 0]
    /\ results = [p \in Procs |-> <<>>]
    /\ currentEntry = [p \in Procs |-> UsageEntry(0, EmptyMap, 0)]
    /\ entries = [p \in Procs |-> <<>>]
    /\ exitCode = [p \in Procs |-> -1]
    /\ stdout = [p \in Procs |-> NoReport]
    /\ stderr = [p \in Procs |-> <<>>]

\* os.Exit(code) after writing msg to standard error
Exit(p, code, msg) ==
    /\ pc' = [pc EXCEPT ![p] = "done"]
    /\ exitCode' = [exitCode EXCEPT ![p] = code]
    /\ stderr' = [stderr EXCEPT ![p] = Append(@, msg)]

\* a new process: flag.Parse and the default file path
Start(p) ==
    /\ pc[p] = "idle"
    /\ overlapped' = (overlapped \/ \E q \in Procs \ {p} : Running(q))
    /\ \E cmp \in BOOLEAN, pathGiven \in BOOLEAN, cwdOk \in BOOLEAN :
        /\ compare' = [compare EXCEPT ![p] = cmp]
        /\ IF ~pathGiven /\ ~cwdOk
           THEN /\ pc' = [pc EXCEPT ![p] = "done"]
                /\ exitCode' = [exitCode EXCEPT ![p] = 1]
                /\ stderr' = [stderr EXCEPT ![p] =
                                <<Msg("Error getting current directory", <<>>)>>]
           ELSE /\ pc' = [pc EXCEPT ![p] = "open"]
                /\ exitCode' = [exitCode EXCEPT ![p] = -1]
                /\ stderr' = [stderr EXCEPT ![p] = <<>>]
    /\ UNCHANGED <<file, now, saved, file0, table, nfsMounts, idx, results,
                   currentEntry, entries, stdout>>

\* getNFSMounts: os.Open("/proc/mounts")
OpenMounts(p, tables) ==
    /\ pc[p] = "open"
    /\ \/ /\ Exit(p, 1, Msg("Error getting NFS mounts", <<>>))
          /\ UNCHANGED table
       \/ /\ \E t \in tables : table' = [table EXCEPT ![p] = t]
          /\ pc' = [pc EXCEPT ![p] = "scan"]
          /\ UNCHANGED <<exitCode, stderr>>
    /\ UNCHANGED <<file, now, saved, overlapped, file0, compare, nfsMounts,
                   idx, results, currentEntry, entries, stdout>>

\* getNFSMounts: the scan, then main up to the construction of currentEntry
ScanMounts(p) ==
    /\ pc[p] = "scan"
    /\ \/ /\ Exit(p, 1, Msg("Error getting NFS mounts", <<>>))
          /\ UNCHANGED <<nfsMounts, currentEntry, now>>
       \/ /\ nfsMounts' = [nfsMounts EXCEPT ![p] = getNFSMounts(table[p])]
          /\ IF NoMounts(getNFSMounts(table[p]))
             THEN /\ Exit(p, 0, Msg("No NFS mounts found", <<>>))
                  /\ UNCHANGED <<currentEntry, now>>
             ELSE /\ \E t \in {now, IF now < MaxTime THEN now + 1 ELSE now} :
                        /\ now' = t
                        /\ currentEntry' = [currentEntry EXCEPT ![p] =
                                                UsageEntry(t, EmptyMap, 0)]
                  /\ pc' = [pc EXCEPT ![p] =
                                IF Len(getNFSMounts(table[p])) = 0 THEN "load"
                                ELSE "sample"]
                  /\ UNCHANGED <<exitCode, stderr>>
    /\ UNCHANGED <<file, saved, overlapped, file0, compare, table, idx, results,
                   entries, stdout>>

\* one iteration of the sampling loop
SampleMount(p, dfRuns) ==
    /\ pc[p] = "sample"
    /\ idx[p] < Len(nfsMounts[p])
    /\ \E run \in dfRuns :
        LET mount == nfsMounts[p][idx[p] + 1]
            ret == getDFBytes(run)
        IN  /\ currentEntry' = [currentEntry EXCEPT ![p] = SampleInto(@, mount, ret)]
            /\ results' = [results EXCEPT ![p] = Append(@, ret.err = "nil")]
            /\ stderr' = [stderr EXCEPT ![p] =
                            IF ret.err = "nil" THEN @
                            ELSE Append(@, Msg("Warning: Error getting df", mount))]
    /\ idx' = [idx EXCEPT ![p] = @ + 1]
    /\ pc' = [pc EXCEPT ![p] = IF idx[p] + 1 = Len(nfsMounts[p]) THEN "load" ELSE "sample"]
    /\ UNCHANGED <<file, now, saved, overlapped, file0, compare, table,
                   nfsMounts, entries, exitCode, stdout>>

\* loadEntries and the append
LoadEntries(p) ==
    /\ pc[p] = "load"
    /\ LET r == loadEntries(file)
       IN  IF LoadFatal(r.err)
           THEN /\ Exit(p, 1, Msg("Error loading existing data", <<>>))
                /\ UNCHANGED entries
           ELSE /\ entries' = [entries EXCEPT ![p] = AppendEntry(r.entries, currentEntry[p])]
                /\ pc' = [pc EXCEPT ![p] = "save"]
                /\ UNCHANGED <<exitCode, stderr>>
    /\ UNCHANGED <<file, now, saved, overlapped, file0, compare, table,
                   nfsMounts, idx, results, currentEntry, stdout>>

\* saveEntries: os.WriteFile either replaces the file, or fails having left it
\* alone or having truncated it
SaveEntries(p) ==
    /\ pc[p] = "save"
    /\ \/ /\ file' = saveEntries(entries[p])
          /\ saved' = saved + 1
          /\ pc' = [pc EXCEPT ![p] = "report"]
          /\ UNCHANGED <<exitCode, stderr>>
       \/ /\ file' \in {file, FileOf("invalid", <<>>)}
          /\ Exit(p, 1, Msg("Error saving data", <<>>))
          /\ UNCHANGED saved
    /\ UNCHANGED <<now, overlapped, file0, compare, table, nfsMounts, idx,
                   results, currentEntry, entries, stdout>>

\* the output to standard output, then the return from main
Report(p) ==
    /\ pc[p] = "report"
    /\ IF UseComparison(compare[p], entries[p])
       THEN LET oldest == filterEntry(entries[p][1])
            IN  \E co \in Orders(DOMAIN currentEntry[p].Mounts),
                   oo \in Orders(DOMAIN oldest.Mounts) :
                    stdout' = [stdout EXCEPT ![p] =
                        [mode |-> "comparison",
                         rows |-> printComparison(oldest, currentEntry[p], co, oo)]]
       ELSE \E co \in Orders(DOMAIN currentEntry[p].Mounts) :
                stdout' = [stdout EXCEPT ![p] =
                    [mode |-> "current", rows |-> printCurrent(currentEntry[p], co)]]
    /\ pc' = [pc EXCEPT ![p] = "done"]
    /\ exitCode' = [exitCode EXCEPT ![p] = 0]
    /\ UNCHANGED <<file, now, saved, overlapped, file0, compare, table,
                   nfsMounts, idx, results, currentEntry, entries, stderr>>

Step(p, tables, dfRuns) ==
    \/ Start(p)
    \/ OpenMounts(p, tables)
    \/ ScanMounts(p)
    \/ SampleMount(p, dfRuns)
    \/ LoadEntries(p)
    \/ SaveEntries(p)
    \/ Report(p)

\* one invocation, from any history file
Next == Step(1, MountTables, DfRuns)

Spec == Init /\ [][Next]_vars

\* one invocation of each of two processes, in sequence or interleaved at
\* their system calls
NextRace == \E p \in Procs : Step(p, RaceTables, RaceDfRuns)

SpecRace == Init /\ [][NextRace]_vars

(***************************************************************************)
(* Shorthands of the properties.                                           *)
(***************************************************************************)
Last(q) == q[Len(q)]

Keys(entry) == DOMAIN entry.Mounts

MapSum(entry) == SumOver(entry.Mounts, Keys(entry))

\* p has sampled every discovered mount
SampledAll(p) == nfsMounts[p] # <<>> /\ Len(results[p]) = Len(nfsMounts[p])

LastMsg(p) == IF stderr[p] = <<>> THEN "" ELSE Last(stderr[p]).text

\* p has exited 0 after its report
Reported(p) == pc[p] = "done" /\ exitCode[p] = 0 /\ SampledAll(p)

(***************************************************************************)
(* C1.  In runs executed one after another, a save that succeeds leaves    *)
(* in the file exactly the samples the file held before, in order,         *)
(* followed by the one new sample of the run; the run that follows exits   *)
(* 0, and no step other than a save changes the file.  So the length of    *)
(* the history grows by one per successful run and its first element stays.*)
(***************************************************************************)
C1_SaveStep(p) ==
    (pc[p] = "save" /\ pc'[p] = "report" /\ ~overlapped)
        => /\ file'.kind = "array"
           /\ Samples(file') = Samples(file) \o <<currentEntry[p]>>
           /\ Len(Samples(file')) = Len(Samples(file)) + 1
           /\ (Samples(file) # <<>> => Samples(file')[1] = Samples(file)[1])

C1_ReportStep(p) ==
    (pc[p] = "report" /\ pc'[p] # "report")
        => pc'[p] = "done" /\ exitCode'[p] = 0 /\ file' = file

C1_AppendsOne ==
    [][/\ \A p \in Procs : C1_SaveStep(p) /\ C1_ReportStep(p)
       /\ (file' # file => \E p \in Procs : pc[p] = "save" /\ pc'[p] # "save")]_vars

C1_Witness ==
    /\ ~overlapped
    /\ \A p \in Procs : Reported(p)
    /\ Len(Samples(file0)) >= 1
    /\ Len(Samples(file)) = Len(Samples(file0)) + 2
    /\ Samples(file)[1] = Samples(file0)[1]

(***************************************************************************)
(* C2.  As stated: the total of every sample a run appends to the history  *)
(* equals the sum of the values of its mounts map.                         *)
(***************************************************************************)
C2_TotalIsSum ==
    \A p \in Procs :
        pc[p] \in {"save", "report"} => Last(entries[p]).Total = MapSum(Last(entries[p]))

(***************************************************************************)
(* C3.  A failed sampling of a mount never ends the run: the keys of the   *)
(* sample are exactly the discovered mounts with a successful sampling,    *)
(* the loop is left only with every mount sampled, a run that exits 1      *)
(* after sampling does so for a load or save error, and when every         *)
(* sampling fails the sample appended has no mounts and total 0.           *)
(***************************************************************************)
C3_SamplingFailuresSkipped ==
    \A p \in Procs :
        /\ Keys(currentEntry[p])
             = {nfsMounts[p][i] : i \in {j \in 1..Len(results[p]) : results[p][j]}}
        /\ Len(results[p]) = idx[p]
        /\ (results[p] # <<>> /\ pc[p] # "sample") => SampledAll(p)
        /\ (results[p] # <<>> /\ pc[p] = "done" /\ exitCode[p] # 0)
              => LastMsg(p) \in {"Error loading existing data", "Error saving data"}
        /\ (SampledAll(p) /\ pc[p] \in {"save", "report"}
              /\ \A i \in 1..Len(results[p]) : ~results[p][i])
              => /\ Keys(Last(entries[p])) = {}
                 /\ Last(entries[p]).Total = 0

C3_Witness ==
    /\ Reported(1)
    /\ results[1] = <<FALSE, TRUE>>
    /\ Keys(Last(Samples(file))) = {nfsMounts[1][2]}

C5_ComparisonIffFlagAndHistory ==
    \A p \in Procs :
        /\ Reported(p)
              => /\ stdout[p].mode
                       = IF compare[p] /\ Len(Samples(file0)) >= 1
                         THEN "comparison" ELSE "current"
                 /\ Samples(file) = Samples(file0) \o <<currentEntry[p]>>
        /\ ~Reported(p) => stdout[p] = NoReport

C5_Witness ==
    /\ Reported(1)
    /\ compare[1]
    /\ file0.kind \in {"absent", "array"}
    /\ Samples(file0) = <<>>
    /\ stdout[1].mode = "current"
    /\ Samples(file) = <<currentEntry[1]>>

(***************************************************************************)
(* C6.  The comparison table of a run has one row for each mount of the    *)
(* current sample C or of O, the first sample of the history with its      *)
(* .snapshot mounts left out, then a total row.  A mount of C shows its    *)
(* value in O (0 when O lacks it), its value in C and C minus O; a mount   *)
(* of O alone shows its value in O, the marker (removed) and minus that    *)
(* value; the total row shows both totals and their difference.            *)
(***************************************************************************)
C6_Oldest ==
    LET first == Samples(file0)[1]
        live == {m \in Keys(first) : ~Contains(m, SnapshotMarker)}
    IN  UsageEntry(first.Timestamp, [m \in live |-> first.Mounts[m]],
                   SumOver(first.Mounts, live))

C6_RowOf(m, O, C) ==
    IF m \in Keys(C)
    THEN LET old == IF m \in Keys(O) THEN O.Mounts[m] ELSE 0
         IN  Row(m, formatBytes(old), formatBytes(C.Mounts[m]),
                 formatDiff(C.Mounts[m] - old))
    ELSE Row(m, formatBytes(O.Mounts[m]), Removed, formatDiff(0 - O.Mounts[m]))

C6_ComparisonRows ==
    \A p \in Procs :
        stdout[p].mode = "comparison"
            => LET rows == stdout[p].rows
                   C == currentEntry[p]
                   O == C6_Oldest
                   n == Len(rows) - 1
               IN  /\ n = Cardinality(Keys(C) \cup Keys(O))
                   /\ {rows[i].mount : i \in 1..n} = Keys(C) \cup Keys(O)
                   /\ \A i \in 1..n : rows[i] = C6_RowOf(rows[i].mount, O, C)
                   /\ rows[n + 1] = Row(TotalLabel, formatBytes(O.Total),
                                        formatBytes(C.Total),
                                        formatDiff(C.Total - O.Total))

C6_Witness ==
    /\ stdout[1].mode = "comparison"
    /\ Keys(currentEntry[1]) = {PathA, PathB}
    /\ Keys(C6_Oldest) = {PathA, PathC}
    /\ \E i \in 1..Len(stdout[1].rows) :
          stdout[1].rows[i] = Row(PathC, <<150, "TiB">>, Removed, <<"-", 150, "TiB">>)
    /\ \E i \in 1..Len(stdout[1].rows) :
          stdout[1].rows[i] = Row(PathB, <<0, "GiB">>, <<100, "GiB">>, <<"+", 100, "GiB">>)

(***************************************************************************)
(* C7.  The mounts a run discovers are, in the order of the mount table,   *)
(* the second field of each line that has at least three fields, whose     *)
(* third field is nfs or nfs4 and whose second field does not contain      *)
(* .snapshot; so no sample of a run has a key that contains .snapshot.     *)
(***************************************************************************)
C7_Selected(line) ==
    /\ Len(Fields(line)) >= 3
    /\ Fields(line)[3] \in {<<"n", "f", "s">>, <<"n", "f", "s", "4">>}
    /\ ~Contains(Fields(line)[2], SnapshotMarker)

C7_Expected(lines) ==
    LET sel == SelectSeq(lines, C7_Selected)
    IN  [i \in 1..Len(sel) |-> Fields(sel[i])[2]]

C7_DiscoverySelectsNfs ==
    \A p \in Procs :
        /\ (pc[p] \in {"sample", "load", "save", "report"}
              \/ (pc[p] = "done" /\ LastMsg(p) # "Error getting NFS mounts"))
              => nfsMounts[p] = C7_Expected(table[p])
        /\ \A m \in Keys(currentEntry[p]) : ~Contains(m, SnapshotMarker)
        /\ pc[p] \in {"save", "report"}
              => \A m \in Keys(Last(entries[p])) : ~Contains(m, SnapshotMarker)

C7_Witness ==
    /\ Reported(1)
    /\ table[1] = <<LineSnap, LineB>>
    /\ nfsMounts[1] = <<PathB>>
    /\ Keys(Last(Samples(file))) = {PathB}

(***************************************************************************)
(* C8.  Filtering a sample loaded from the history keeps its timestamp,    *)
(* keeps exactly the entries whose path does not contain .snapshot with    *)
(* their values, gives a total equal to the sum of those values and never  *)
(* greater than the total of the sample; the sample filtered stays as      *)
(* loaded.                                                                 *)
(***************************************************************************)
C8_FilterOf(e) ==
    LET f == filterEntry(e)
    IN  /\ f.Timestamp = e.Timestamp
        /\ Keys(f) = {m \in Keys(e) : ~Contains(m, SnapshotMarker)}
        /\ \A m \in Keys(f) : f.Mounts[m] = e.Mounts[m]
        /\ f.Total = MapSum(f)
        /\ f.Total <= e.Total

C8_FilterEntry ==
    \A p \in Procs :
        /\ \A i \in 1..Len(entries[p]) : C8_FilterOf(entries[p][i])
        /\ stdout[p].mode = "comparison"
              => /\ entries[p][1] = Samples(file0)[1]
                 /\ Last(stdout[p].rows).oldest
                       = formatBytes(filterEntry(Samples(file0)[1]).Total)

C8_Witness ==
    /\ stdout[1].mode = "comparison"
    /\ PathSnap \in Keys(entries[1][1])
    /\ filterEntry(entries[1][1]).Total < entries[1][1].Total
    /\ Last(stdout[1].rows).oldest = <<100, "GiB">>

(***************************************************************************)
(* C9.  A run whose discovery selects no mount exits 0 there: it builds    *)
(* and appends no sample, neither reads nor writes the history file,       *)
(* whatever the file holds, and prints no report.                          *)
(***************************************************************************)
C9_NoMountsExit ==
    \A p \in Procs :
        (/\ pc[p] \notin {"idle", "open", "scan"}
         /\ LastMsg(p) \notin {"Error getting NFS mounts",
                               "Error getting current directory"}
         /\ C7_Expected(table[p]) = <<>>)
            => /\ pc[p] = "done"
               /\ exitCode[p] = 0
               /\ LastMsg(p) = "No NFS mounts found"
               /\ currentEntry[p] = UsageEntry(0, EmptyMap, 0)
               /\ results[p] = <<>>
               /\ entries[p] = <<>>
               /\ file = file0
               /\ saved = 0
               /\ stdout[p] = NoReport

C9_Witness ==
    /\ pc[1] = "done"
    /\ exitCode[1] = 0
    /\ table[1] = <<LineSnap, LineOther>>
    /\ file0.kind = "invalid"
    /\ file = file0
    /\ stdout[1] = NoReport

(***************************************************************************)
(* C10.  Two runs on the same history file can lose an update.  Whatever   *)
(* the interleaving, a file written by a save is the history one process   *)
(* loaded followed by the sample of that process; when the runs do not     *)
(* overlap, the history has grown by one sample for every save that        *)
(* succeeded.  The witness is an interleaving in which both runs exit 0    *)
(* and the history has grown by one sample, not two.                       *)
(***************************************************************************)
Loadable(f) == ~LoadFatal(loadEntries(f).err)

C10_LastWriterWins ==
    /\ (~overlapped /\ Loadable(file))
          => Len(Samples(file)) = Len(Samples(file0)) + saved
    /\ (saved > 0 /\ file.kind = "array")
          => \E p \in Procs :
                /\ pc[p] \in {"report", "done"}
                /\ Samples(file) = entries[p]
                /\ Last(entries[p]) = currentEntry[p]
    /\ Loadable(file) => Len(Samples(file)) <= Len(Samples(file0)) + saved

C10_Witness ==
    /\ overlapped
    /\ \A p \in Procs : Reported(p)
    /\ saved = 2
    /\ Len(Samples(file)) = Len(Samples(file0)) + 1
    /\ \E p \in Procs : Samples(file) = Samples(file0) \o <<currentEntry[p]>>

=============================================================================
